---- MODULE Spec2Model ----
(***************************************************************************)
(* Cloud29 Discovery Chat backend: the edge handler of api/chat.ts and its *)
(* near-duplicate variant (src/unnamed/part_000).                          *)
(*                                                                         *)
(* Text is modelled as a sequence of symbols.  One symbol stands for one   *)
(* indivisible run of characters; a chunk boundary of the upstream body    *)
(* can fall between any two symbols:                                       *)
(*   "\n"          the newline the relay splits on                         *)
(*   "data:"       the SSE field prefix tested by startsWith               *)
(*   " "           white space, removed by trim()                          *)
(*   "[DONE]"      the upstream terminal marker                            *)
(*   "{c:"  "}"    opening / closing of {"choices":[{"delta":{"content":"  *)
(*   "{d:"  "}"    opening / closing of the flat shape {"delta":"          *)
(*   "{}"          a parseable JSON value that carries no delta at all     *)
(*   "#"           text that is not JSON                                   *)
(*   "a"           a plain character of generated text                     *)
(*   "[DATE_PL", "US_7]"   the two halves of the token [DATE_PLUS_7]       *)
(*   "29 Sep"      the resolved date text                                  *)
(***************************************************************************)
EXTENDS Integers, Sequences, FiniteSets, TLC

\* ------------------------------------------------------------------ bounds
MaxLines == 2
MaxDelta == 1
MaxWords == 3
MaxMsgs == 2

\* ------------------------------------------------------- sequence helpers
Last(s) == s[Len(s)]

Front(s) == SubSeq(s, 1, Len(s) - 1)

RECURSIVE Flatten(_)
Flatten(ss) == IF ss = <<>> THEN <<>> ELSE Head(ss) \o Flatten(Tail(ss))

RECURSIVE SeqsUpTo(_, _)
SeqsUpTo(S, n) ==
  IF n = 0 THEN {<<>>}
  ELSE LET shorter == SeqsUpTo(S, n - 1)
       IN  shorter \cup {Append(s, x) : s \in {t \in shorter : Len(t) = n - 1}, x \in S}

\* ------------------------------------------------------------ the symbols
NL == "\n"
DATA == "data:"
SP == " "
DONE == "[DONE]"
TOK1 == "[DATE_PL"
TOK2 == "US_7]"
PLAIN == "a"
TextChars == {PLAIN, TOK1, TOK2}

\* const dateToken = "[DATE_PLUS_7]"
dateToken == <<TOK1, TOK2>>

\* const dateValue = computeDatePlus7London(), computed once per request
dateValue == <<"29 Sep">>

Variants == {"chat.ts", "part_000"}

\* ------------------------------------------------------------ String API
\* s.startsWith(p)
StartsWith(s, p) == Len(s) >= Len(p) /\ SubSeq(s, 1, Len(p)) = p

\* s.includes(p)
Includes(s, p) == \E i \in 1..(Len(s) - Len(p) + 1) : SubSeq(s, i, i + Len(p) - 1) = p

\* s.split(sep): the pieces between the occurrences of sep, scanning from
\* the left; "a\n".split("\n") is ["a", ""], "".split("\n") is [""]
RECURSIVE SplitOn(_, _)
SplitOn(s, sep) ==
  IF ~Includes(s, sep) THEN <<s>>
  ELSE LET i == CHOOSE k \in 1..Len(s) :
                  /\ SubSeq(s, k, k + Len(sep) - 1) = sep
                  /\ \A j \in 1..(k - 1) : SubSeq(s, j, j + Len(sep) - 1) # sep
       IN  <<SubSeq(s, 1, i - 1)>> \o SplitOn(SubSeq(s, i + Len(sep), Len(s)), sep)

\* parts.join(glue)
RECURSIVE Join(_, _)
Join(parts, glue) ==
  IF Len(parts) = 1 THEN parts[1]
  ELSE parts[1] \o glue \o Join(Tail(parts), glue)

\* s.replaceAll(p, r): left to right, non-overlapping
RECURSIVE ReplaceAll(_, _, _)
ReplaceAll(s, p, r) ==
  IF s = <<>> THEN <<>>
  ELSE IF StartsWith(s, p) THEN r \o ReplaceAll(SubSeq(s, Len(p) + 1, Len(s)), p, r)
  ELSE <<Head(s)>> \o ReplaceAll(Tail(s), p, r)

\* s.trim()
RECURSIVE TrimStart(_)
TrimStart(s) == IF s # <<>> /\ Head(s) = SP THEN TrimStart(Tail(s)) ELSE s

RECURSIVE TrimEnd(_)
TrimEnd(s) == IF s # <<>> /\ Last(s) = SP THEN TrimEnd(Front(s)) ELSE s

Trim(s) == TrimEnd(TrimStart(s))

\* ------------------------------------------------- JSON and SSE framing
\* JSON.parse(text): white space around the value is accepted.  The result
\* records whether parsing succeeded, json.choices[0].delta.content and
\* json.delta (each <<>> when undefined, <<t>> when the string t), and the
\* value's canonical text (what JSON.stringify gives back).
\* the symbols that cannot stand inside a JSON string
Structural == {NL, DATA, DONE, "{c:", "{d:", "}", "{}", "#"}

NotJson == [ok |-> FALSE, content |-> <<>>, flat |-> <<>>, src |-> <<>>]

JsonParse(text) ==
  LET d == Trim(text)
      inner == SubSeq(d, 2, Len(d) - 1)
      isText == \A i \in 1..Len(inner) : inner[i] \notin Structural
  IN  IF Len(d) >= 2 /\ Head(d) = "{c:" /\ Last(d) = "}" /\ isText
        THEN [ok |-> TRUE, content |-> <<inner>>, flat |-> <<>>, src |-> d]
      ELSE IF Len(d) >= 2 /\ Head(d) = "{d:" /\ Last(d) = "}" /\ isText
        THEN [ok |-> TRUE, content |-> <<>>, flat |-> <<inner>>, src |-> d]
      ELSE IF d = <<"{}">>
        THEN [ok |-> TRUE, content |-> <<>>, flat |-> <<>>, src |-> d]
      ELSE NotJson

\* json?.choices?.[0]?.delta?.content ?? json?.delta
DeltaOf(json) == IF json.content # <<>> THEN json.content ELSE json.flat

\* typeof delta === "string" && delta.length
IsText(delta) == delta # <<>> /\ delta[1] # <<>>

\* sseLine(data) for a string argument: `data: ${data}\n\n`
sseLine(data) == <<DATA, SP>> \o data \o <<NL, NL>>

\* JSON.stringify({ delta: text })
StringifyDelta(text) == <<"{d:">> \o text \o <<"}">>

\* the replacement of the date token, as each variant writes it
PatchedReplaceOnce(v, delta) ==
  IF Includes(delta, dateToken)
    THEN IF v = "chat.ts" THEN Join(SplitOn(delta, dateToken), dateValue)
         ELSE LET parts == SplitOn(delta, dateToken)
              IN  parts[1] \o dateValue \o Join(Tail(parts), dateToken)
    ELSE delta

PatchedFirstOnly(v, delta) ==
  IF Includes(delta, dateToken)
    THEN LET parts == SplitOn(delta, dateToken)
         IN  parts[1] \o dateValue \o Join(Tail(parts), dateToken)
    ELSE delta

Patched(v, delta) ==
  IF Includes(delta, dateToken)
    THEN IF v = "chat.ts" THEN Join(SplitOn(delta, dateToken), dateValue)
                          ELSE ReplaceAll(delta, dateToken, dateValue)
    ELSE delta

\* the writes of the relay for a parsed event: the patched delta, or, in
\* chat.ts only, any other shape forwarded unchanged
EventFrames(v, json) ==
  IF IsText(DeltaOf(json))
    THEN <<sseLine(StringifyDelta(Patched(v, DeltaOf(json)[1])))>>
    ELSE IF v = "chat.ts" THEN <<sseLine(json.src)>> ELSE <<>>

\* the body of `for (const line of lines)`: the frames written for one line
LineFramesForwardingBad(v, line) ==
  IF ~StartsWith(line, <<DATA>>) THEN <<>>
  ELSE LET data == Trim(Tail(line))
       IN  IF data = <<DONE>> THEN <<sseLine(<<DONE>>)>>
           ELSE IF JsonParse(data).ok THEN EventFrames(v, JsonParse(data))
           ELSE <<sseLine(data)>>

LineFrames(v, line) ==
  IF ~StartsWith(line, <<DATA>>) THEN <<>>
  ELSE LET data == Trim(Tail(line))
       IN  IF data = <<DONE>> THEN <<sseLine(<<DONE>>)>>
           ELSE IF JsonParse(data).ok THEN EventFrames(v, JsonParse(data))
           ELSE <<>>

\* "Flush any remaining buffer": the leftover is parsed as it stands
FlushFrames(v, buf) ==
  IF buf = <<>> THEN <<>>
  ELSE LET json == JsonParse(buf)
       IN  IF json.ok /\ IsText(DeltaOf(json))
             THEN <<sseLine(StringifyDelta(Patched(v, DeltaOf(json)[1])))>>
             ELSE <<>>

\* const lines = buffer.split("\n"); buffer = lines.pop() || ""
LeftoverDropped(parts) == <<>>

Leftover(parts) == Last(parts)

CompleteLines(parts) == Front(parts)

\* ------------------------------------------------------- request intake
\* The content of a turn: a string (a sequence of words, separated by
\* single spaces), a falsy value (absent, null, ""), or a truthy value
\* that is not a string (a number, a list, an object).
Words == {"how", "much", "long", "time", "Cost", "license", "see"}

Lower(w) == IF w = "Cost" THEN "cost" ELSE w

\* content.toLowerCase()
ToLowerCase(ws) == [i \in 1..Len(ws) |-> Lower(ws[i])]

TextContent(ws) == [kind |-> "text", words |-> ws]

Falsy == [kind |-> "falsy", words |-> <<>>]

NonString == [kind |-> "nonstring", words |-> <<>>]

\* messages[messages.length - 1]?.content || ""
LastContent(messages) ==
  IF messages = <<>> THEN Falsy
  ELSE IF Last(messages).content.kind = "text" /\ Last(messages).content.words = <<>> THEN Falsy
  ELSE Last(messages).content

\* the regular expressions, on a lower-cased sequence of words
Has(ws, w) == \E i \in 1..Len(ws) : ws[i] = w

Adj(ws, a, b) == \E i \in 1..(Len(ws) - 1) : ws[i] = a /\ ws[i + 1] = b

Adj3(ws, a, b, c) == \E i \in 1..(Len(ws) - 2) : ws[i] = a /\ ws[i + 1] = b /\ ws[i + 2] = c

Then(ws, a, b) == \E i \in 1..Len(ws) : \E j \in (i + 1)..Len(ws) : ws[i] = a /\ ws[j] = b

faqTime(v, last) ==
  \/ Adj(last, "how", "long")
  \/ Has(last, "timeline")
  \/ (v = "chat.ts" /\ Adj(last, "time", "line"))
  \/ Adj3(last, "how", "much", "time")
  \/ Then(last, "when", "ready")

faqCost(v, last) ==
  \/ Adj(last, "how", "much")
  \/ Has(last, "price") \/ Has(last, "pricing") \/ Has(last, "cost") \/ Has(last, "costs")
  \/ IF v = "chat.ts"
       THEN Adj(last, "license", "fee") \/ Adj(last, "installation", "cost")
       ELSE Has(last, "license") \/ Has(last, "installation")

faqVisibility(v, last) ==
  /\ v = "part_000"
  /\ \/ Then(last, "how", "see") \/ Then(last, "how", "going")
     \/ Then(last, "how", "track") \/ Then(last, "how", "watch")

TimeAnswer(v) ==
  IF v = "chat.ts" THEN <<"It depends on your project. On average, it takes 7-10 days ...">>
  ELSE <<"On average, it takes 7-10 days ...">>

CostAnswer(v) ==
  IF v = "chat.ts" THEN <<"I can't give precise figures yet ... There are two costs: ...">>
  ELSE <<"There are two costs: ...">>

VisibilityAnswer(v) == <<"You'll get a secure Cloud29 login ...">>

\* const text = faqTime ? ... : faqCost ? ... : ...
FaqTextCostFirst(v, last) ==
  IF faqCost(v, last) THEN CostAnswer(v)
  ELSE IF faqTime(v, last) THEN TimeAnswer(v)
  ELSE VisibilityAnswer(v)

FaqText(v, last) ==
  IF faqTime(v, last) THEN TimeAnswer(v)
  ELSE IF faqCost(v, last) THEN CostAnswer(v)
  ELSE VisibilityAnswer(v)

IsFaq(v, last) == faqTime(v, last) \/ faqCost(v, last) \/ faqVisibility(v, last)

\* the canned stream: one delta frame, the sentinel, close
FaqFramesNoSentinel(v, last) == <<sseLine(StringifyDelta(FaqText(v, last)))>>

FaqFrames(v, last) == <<sseLine(StringifyDelta(FaqText(v, last))), sseLine(<<DONE>>)>>

\* Array.isArray(body?.messages) ? body.messages : []
MessagesOf(body) == IF body.kind = "ok" THEN body.messages ELSE <<>>

\* body?.model || "gpt-4o-mini"
ModelOfNoDefault(body) == body.model

ModelOf(body) == IF body.kind # "badjson" /\ body.model # "" THEN body.model ELSE "gpt-4o-mini"

SystemTurn(v) == [role |-> "system", content |-> TextContent(<<"SYSTEM_PROMPT", v>>)]

\* { model, stream: true, messages: [{ role: "system", ... }, ...messages] }
PayloadSystemLast(v, body) ==
  [model |-> ModelOf(body), stream |-> TRUE,
   messages |-> MessagesOf(body) \o <<SystemTurn(v)>>]

Payload(v, body) ==
  [model |-> ModelOf(body), stream |-> TRUE,
   messages |-> <<SystemTurn(v)>> \o MessagesOf(body)]

\* ------------------------------------------------------------ the inputs
ExtraContents == {<<"how", "much", "time", "see">>}

Contents ==
  {TextContent(ws) : ws \in SeqsUpTo(Words, MaxWords) \cup ExtraContents} \cup {Falsy, NonString}

HistoryTurns ==
  {[role |-> "assistant", content |-> TextContent(<<"how", "long">>)],
   [role |-> "user", content |-> TextContent(<<"see">>)]}

MessageLists ==
  {<<>>} \cup {h \o <<[role |-> "user", content |-> c]>> :
                 h \in SeqsUpTo(HistoryTurns, MaxMsgs - 1), c \in Contents}

BadJsonBody == [kind |-> "badjson", messages |-> <<>>, model |-> ""]

Bodies ==
  {BadJsonBody}
    \cup {[kind |-> "nomessages", messages |-> <<>>, model |-> m] : m \in {"", "gpt-4o"}}
    \cup {[kind |-> "ok", messages |-> ms, model |-> m] : ms \in MessageLists, m \in {"", "gpt-4o"}}

Requests == {[method |-> m, body |-> b] : m \in {"POST", "GET"}, b \in Bodies}

Released == [method |-> "released", body |-> BadJsonBody]

NoPayload == [model |-> "", stream |-> FALSE, messages |-> <<>>]

\* the lines an upstream body is made of
\* the delta texts: plain text up to MaxDelta characters, the halves of the
\* token alone, the token, and the token twice
DeltaTexts ==
  SeqsUpTo({PLAIN}, MaxDelta)
    \cup {<<TOK1>>, <<TOK2>>, <<TOK1, TOK2>>, <<TOK1, TOK2, PLAIN, TOK1, TOK2>>}

DeltaLine(t) == <<DATA, "{c:">> \o t \o <<"}">>

LineKinds ==
  {DeltaLine(t) : t \in DeltaTexts}
    \cup {<<DATA, SP, DONE>>, <<DATA, "#">>, <<DATA, "{}">>, <<"{d:", PLAIN, "}">>, <<>>}

\* every line ends with a newline, except possibly the last one
Body(ls, terminated) ==
  LET all == Flatten([i \in 1..Len(ls) |-> ls[i] \o <<NL>>])
  IN  IF terminated \/ ls = <<>> THEN all ELSE Front(all)

ExtraStreams ==
  {Body(<<DeltaLine(<<PLAIN>>), <<DATA, "#">>, DeltaLine(<<TOK1, TOK2>>), <<DATA, SP, DONE>>>>, TRUE),
   Body(<<DeltaLine(<<TOK1>>), <<>>, DeltaLine(<<TOK2>>), <<>>>>, TRUE)}

Streams ==
  {Body(ls, t) : ls \in SeqsUpTo(LineKinds, MaxLines), t \in BOOLEAN} \cup ExtraStreams

\* --------------------------------------------------------------- state
VARIABLES
  variant,        \* which of the two handler files is deployed
  pc,             \* where the handler is
  req,            \* the inbound request (method, body)
  hasKey,         \* process.env.OPENAI_API_KEY is set
  inflight,       \* the payload of the fetch awaiting its response
  upstreamCalls,  \* number of fetch calls made
  status,         \* status of the Response returned, 0 while none
  stream,         \* the whole upstream body (history)
  rest,           \* the part of the upstream body not yet read
  buffer,         \* let buffer
  lines,          \* the lines of the current chunk not yet looped over
  out,            \* the frames written to the client, in order
  closed,         \* the outbound channel is closed
  tokenSplit,     \* history: a chunk boundary fell inside a date token
  accepted,       \* how many of the frames written the downstream has accepted
  clientGone,     \* the downstream client has disconnected
  upstreamOpen    \* the upstream connection is held (reader locked, body not ended)

vars == <<variant, pc, req, hasKey, inflight, upstreamCalls, status, stream, rest,
          buffer, lines, out, closed, tokenSplit, accepted, clientGone, upstreamOpen>>

relayVars == <<stream, rest, buffer, lines, tokenSplit, accepted, clientGone, upstreamOpen>>

Init ==
  /\ variant \in Variants
  /\ req \in Requests
  /\ hasKey \in BOOLEAN
  /\ pc = "start"
  /\ inflight = NoPayload
  /\ upstreamCalls = 0
  /\ status = 0
  /\ stream = <<>>
  /\ rest = <<>>
  /\ buffer = <<>>
  /\ lines = <<>>
  /\ out = <<>>
  /\ closed = FALSE
  /\ tokenSplit = FALSE
  /\ accepted = 0
  /\ clientGone = FALSE
  /\ upstreamOpen = FALSE

\* ------------------------------------------------------------- handler
\* if (req.method !== "POST") return new Response("Only POST", { status: 405 })
MethodNotAllowedKeyFirst ==
  /\ pc = "start"
  /\ req.method # "POST"
  /\ status' = IF hasKey THEN 405 ELSE 500
  /\ pc' = "responded"
  /\ UNCHANGED <<variant, req, hasKey, inflight, upstreamCalls, out, closed, relayVars>>

MethodNotAllowed ==
  /\ pc = "start"
  /\ req.method # "POST"
  /\ status' = 405
  /\ pc' = "responded"
  /\ UNCHANGED <<variant, req, hasKey, inflight, upstreamCalls, out, closed, relayVars>>

LastText == ToLowerCase(LastContent(MessagesOf(req.body)).words)

\* if (!apiKey) return new Response("Missing OPENAI_API_KEY", { status: 500 })
MissingKeyAfterFaq ==
  /\ pc = "start"
  /\ req.method = "POST"
  /\ ~hasKey
  /\ IF LastContent(MessagesOf(req.body)).kind # "nonstring" /\ IsFaq(variant, LastText)
       THEN out' = FaqFrames(variant, LastText) /\ closed' = TRUE /\ status' = 200
       ELSE out' = out /\ closed' = closed /\ status' = 500
  /\ pc' = "responded"
  /\ UNCHANGED <<variant, req, hasKey, inflight, upstreamCalls, relayVars>>

MissingKey ==
  /\ pc = "start"
  /\ req.method = "POST"
  /\ ~hasKey
  /\ status' = 500
  /\ pc' = "responded"
  /\ UNCHANGED <<variant, req, hasKey, inflight, upstreamCalls, out, closed, relayVars>>

Accepted == pc = "start" /\ req.method = "POST" /\ hasKey

\* (content || "").toLowerCase() on a truthy value that is not a string:
\* TypeError, the handler's promise rejects
IntakeThrows ==
  /\ Accepted
  /\ LastContent(MessagesOf(req.body)).kind = "nonstring"
  /\ pc' = "threw"
  /\ UNCHANGED <<variant, req, hasKey, inflight, upstreamCalls, status, out, closed, relayVars>>

\* the FAQ shortcut: a finished stream, no upstream call
FaqShortcut ==
  /\ Accepted
  /\ LastContent(MessagesOf(req.body)).kind # "nonstring"
  /\ IsFaq(variant, LastText)
  /\ out' = FaqFrames(variant, LastText)
  /\ closed' = TRUE
  /\ status' = 200
  /\ pc' = "responded"
  /\ UNCHANGED <<variant, req, hasKey, inflight, upstreamCalls, relayVars>>

\* build the payload and call fetch
CallUpstream ==
  /\ Accepted
  /\ LastContent(MessagesOf(req.body)).kind # "nonstring"
  /\ ~IsFaq(variant, LastText)
  /\ inflight' = Payload(variant, req.body)
  /\ upstreamCalls' = upstreamCalls + 1
  /\ pc' = "fetching"
  /\ UNCHANGED <<variant, req, hasKey, status, out, closed, relayVars>>

\* if (!upstream.ok || !upstream.body) ... return new Response(txt, { status: 502 })
UpstreamError ==
  /\ pc = "fetching"
  /\ status' = 502
  /\ pc' = "responded"
  /\ UNCHANGED <<variant, req, hasKey, inflight, upstreamCalls, out, closed, relayVars>>

\* fetch rejects (upstream unreachable): nothing catches it
UpstreamUnreachable ==
  /\ pc = "fetching"
  /\ pc' = "threw"
  /\ UNCHANGED <<variant, req, hasKey, inflight, upstreamCalls, status, out, closed, relayVars>>

\* the upstream answers 200 with a body: the relay is started and the
\* streaming Response is returned; the request and the payload are not
\* used again
StartRelay ==
  /\ pc = "fetching"
  /\ req' = Released
  /\ inflight' = NoPayload
  /\ status' = 200
  /\ upstreamOpen' = TRUE
  /\ pc' = "relaying"
  /\ UNCHANGED <<variant, hasKey, upstreamCalls, out, closed, stream, rest, buffer, lines,
                 tokenSplit, accepted, clientGone>>

\* the upstream produces its body (the environment's choice)
UpstreamBody ==
  /\ pc = "relaying"
  /\ \E s \in Streams : stream' = s /\ rest' = s
  /\ pc' = "reading"
  /\ UNCHANGED <<variant, req, hasKey, inflight, upstreamCalls, status, buffer, lines,
                 out, closed, tokenSplit, accepted, clientGone, upstreamOpen>>

\* --------------------------------------------------------------- relay
\* `await writer.write(...)` has returned: the downstream has accepted every
\* frame written so far
WriteNotAwaited == TRUE

WriteSettled == accepted = Len(out)

RelayRunning == pc \in {"reading", "emitting", "closing", "finishing"}

\* reader.read() yields a chunk: any non-empty prefix of what is left
Read ==
  /\ pc = "reading"
  /\ WriteSettled
  /\ rest # <<>>
  /\ \E k \in 1..Len(rest) :
       LET parts == SplitOn(buffer \o SubSeq(rest, 1, k), <<NL>>)
       IN  /\ rest' = SubSeq(rest, k + 1, Len(rest))
           /\ lines' = CompleteLines(parts)
           /\ buffer' = Leftover(parts)
           /\ pc' = IF CompleteLines(parts) = <<>> THEN "reading" ELSE "emitting"
           /\ tokenSplit' = (tokenSplit \/ (k < Len(rest) /\ rest[k] = TOK1 /\ rest[k + 1] = TOK2))
  /\ UNCHANGED <<variant, req, hasKey, inflight, upstreamCalls, status, stream, out, closed,
                 accepted, clientGone, upstreamOpen>>

\* reader.read() rejects (the upstream connection breaks): the rejection
\* leaves the detached async function, nothing catches it
ReadError ==
  /\ pc = "reading"
  /\ WriteSettled
  /\ upstreamOpen' = FALSE
  /\ pc' = "readfailed"
  /\ UNCHANGED <<variant, req, hasKey, inflight, upstreamCalls, status, stream, rest, buffer,
                 lines, out, closed, tokenSplit, accepted, clientGone>>

\* one turn of `for (const line of lines)`
EmitLine ==
  /\ pc = "emitting"
  /\ WriteSettled
  /\ out' = out \o LineFrames(variant, Head(lines))
  /\ lines' = Tail(lines)
  /\ pc' = IF Tail(lines) = <<>> THEN "reading" ELSE "emitting"
  /\ UNCHANGED <<variant, req, hasKey, inflight, upstreamCalls, status, stream, rest,
                 buffer, closed, tokenSplit, accepted, clientGone, upstreamOpen>>

\* reader.read() reports done: leave the loop and flush the leftover
Drain ==
  /\ pc = "reading"
  /\ WriteSettled
  /\ rest = <<>>
  /\ out' = out \o FlushFrames(variant, buffer)
  /\ upstreamOpen' = FALSE
  /\ pc' = "closing"
  /\ UNCHANGED <<variant, req, hasKey, inflight, upstreamCalls, status, stream, rest,
                 buffer, lines, closed, tokenSplit, accepted, clientGone>>

\* await writer.write(sseLine("[DONE]"))
WriteSentinel ==
  /\ pc = "closing"
  /\ WriteSettled
  /\ out' = Append(out, sseLine(<<DONE>>))
  /\ pc' = "finishing"
  /\ UNCHANGED <<variant, req, hasKey, inflight, upstreamCalls, status, stream, rest,
                 buffer, lines, closed, tokenSplit, accepted, clientGone, upstreamOpen>>

\* await writer.close()
Close ==
  /\ pc = "finishing"
  /\ WriteSettled
  /\ ~clientGone
  /\ closed' = TRUE
  /\ pc' = "closed"
  /\ UNCHANGED <<variant, req, hasKey, inflight, upstreamCalls, status, stream, rest,
                 buffer, lines, out, tokenSplit, accepted, clientGone, upstreamOpen>>

\* the downstream takes the next frame written
Accept ==
  /\ accepted < Len(out)
  /\ ~clientGone
  /\ accepted' = accepted + 1
  /\ UNCHANGED <<variant, pc, req, hasKey, inflight, upstreamCalls, status, stream, rest,
                 buffer, lines, out, closed, tokenSplit, clientGone, upstreamOpen>>

\* the downstream client disconnects while the relay runs
ClientDisconnect ==
  /\ RelayRunning
  /\ ~clientGone
  /\ clientGone' = TRUE
  /\ UNCHANGED <<variant, pc, req, hasKey, inflight, upstreamCalls, status, stream, rest,
                 buffer, lines, out, closed, tokenSplit, accepted, upstreamOpen>>

\* the pending writer.write() or writer.close() rejects because the client
\* is gone: the rejection leaves the detached async function, nothing
\* catches it and nothing cancels the reader
WriteRejected ==
  /\ RelayRunning
  /\ clientGone
  /\ accepted < Len(out) \/ pc = "finishing"
  /\ pc' = "writefailed"
  /\ UNCHANGED <<variant, req, hasKey, inflight, upstreamCalls, status, stream, rest,
                 buffer, lines, out, closed, tokenSplit, accepted, clientGone, upstreamOpen>>

Next ==
  \/ MethodNotAllowed
  \/ MissingKey
  \/ IntakeThrows
  \/ FaqShortcut
  \/ CallUpstream
  \/ UpstreamError
  \/ UpstreamUnreachable
  \/ StartRelay
  \/ UpstreamBody
  \/ Read
  \/ ReadError
  \/ EmitLine
  \/ Drain
  \/ WriteSentinel
  \/ Close
  \/ Accept
  \/ ClientDisconnect
  \/ WriteRejected

Spec == Init /\ [][Next]_vars

TypeOK ==
  /\ variant \in Variants
  /\ pc \in {"start", "responded", "threw", "fetching", "relaying", "reading", "emitting", "closing", "finishing", "closed",
            "readfailed", "writefailed"}
  /\ accepted \in 0..Len(out)
  /\ status \in {0, 200, 405, 500, 502}
  /\ closed \in BOOLEAN

\* ================================================================ claims
\* reading the frames the client received
Sentinel == sseLine(<<DONE>>)

IsSentinel(f) == f = Sentinel

\* data: {"delta":"<non-empty text>"}\n\n
IsDeltaFrame(f) ==
  /\ Len(f) >= 6
  /\ SubSeq(f, 1, 3) = <<DATA, SP, "{d:">>
  /\ SubSeq(f, Len(f) - 2, Len(f)) = <<"}", NL, NL>>
  /\ \A i \in 4..(Len(f) - 3) : f[i] \notin Structural

DeltaTextOf(f) == SubSeq(f, 4, Len(f) - 3)

RECURSIVE Count(_, _)
Count(s, p) ==
  IF Len(s) < Len(p) THEN 0
  ELSE IF StartsWith(s, p) THEN 1 + Count(SubSeq(s, Len(p) + 1, Len(s)), p)
  ELSE Count(Tail(s), p)

IsSentinelAt(i) == IsSentinel(out[i])

Sentinels == {i \in 1..Len(out) : IsSentinel(out[i])}

\* the delta texts the client received, in order
RECURSIVE DeltaTextsIn(_)
DeltaTextsIn(fs) ==
  IF fs = <<>> THEN <<>>
  ELSE IF IsDeltaFrame(Head(fs)) THEN <<DeltaTextOf(Head(fs))>> \o DeltaTextsIn(Tail(fs))
  ELSE DeltaTextsIn(Tail(fs))

\* the upstream lines: everything between newlines, the unterminated rest last
UpstreamLines(s) == SplitOn(s, <<NL>>)

\* the text delta an upstream line carries: <<t>>, or <<>> when it is not a
\* `data:` event with a non-empty string delta
CarriedDelta(line) ==
  IF StartsWith(line, <<DATA>>) /\ Trim(Tail(line)) # <<DONE>>
       /\ JsonParse(Tail(line)).ok /\ IsText(DeltaOf(JsonParse(Tail(line))))
    THEN DeltaOf(JsonParse(Tail(line)))
    ELSE <<>>

RECURSIVE CarriedDeltas(_)
CarriedDeltas(ls) ==
  IF ls = <<>> THEN <<>> ELSE CarriedDelta(Head(ls)) \o CarriedDeltas(Tail(ls))

\* the date put back as the token
Unpatch(t) == ReplaceAll(t, dateValue, dateToken)

\* C1: a relay that ran to completion has written exactly one terminal
\* sentinel, and it is the last frame written before the channel was closed.
C1_OneSentinelLast ==
  pc = "closed" =>
    /\ closed
    /\ Cardinality(Sentinels) = 1
    /\ IsSentinel(Last(out))

\* C2: the delta frames written correspond one-to-one, in order, to the
\* upstream events carrying a non-empty text delta, each changed only by the
\* placeholder substitution.
C2_DeltasOneToOne ==
  pc = "closed" =>
    LET src == CarriedDeltas(UpstreamLines(stream))
        got == DeltaTextsIn(out)
    IN  /\ Len(got) = Len(src)
        /\ \A i \in 1..Len(src) : Unpatch(got[i]) = src[i]

\* what the relay writes when the whole body arrives as one chunk
RECURSIVE FramesOfLines(_, _)
FramesOfLines(v, ls) ==
  IF ls = <<>> THEN <<>> ELSE LineFrames(v, Head(ls)) \o FramesOfLines(v, Tail(ls))

OneChunkRelay(v, s) ==
  FramesOfLines(v, Front(UpstreamLines(s))) \o FlushFrames(v, Last(UpstreamLines(s)))
    \o <<Sentinel>>

\* C3: the frames written depend only on the concatenation of the upstream
\* chunks: however the body was cut into chunks, also inside the date token,
\* the relay has written what it writes when the body arrives in one chunk.
C3_ChunkingIrrelevant ==
  pc = "closed" => out = OneChunkRelay(variant, stream)

\* C3 witness: a body was cut between the two halves of a date token of one
\* delta, and the delta was written with the date in place of the token.
C3_Witness ==
  /\ pc = "closed"
  /\ tokenSplit
  /\ Includes(stream, <<"{c:", TOK1, TOK2, "}", NL>>)
  /\ \E i \in 1..Len(out) : out[i] = sseLine(StringifyDelta(dateValue))

\* C4: a delta text with N occurrences of the token is written with all N
\* replaced by the resolved date and nothing else changed; with N = 0 it is
\* written as received.
C4_Substitution ==
  [][(pc = "emitting" /\ lines' # lines /\ CarriedDelta(Head(lines)) # <<>>) =>
       /\ Len(out') = Len(out) + 1
       /\ IsDeltaFrame(Last(out'))
       /\ LET t == CarriedDelta(Head(lines))[1]
              e == DeltaTextOf(Last(out'))
          IN  /\ Count(t, dateToken) = 0 => e = t
              /\ Count(e, dateValue) = Count(t, dateToken)
              /\ Count(e, dateToken) = 0
              /\ Unpatch(e) = t]_vars

\* C4 witness: a delta with two occurrences of the token was written with
\* two dates.
C4_Witness ==
  \E i \in 1..Len(out) :
    /\ IsDeltaFrame(out[i])
    /\ Count(DeltaTextOf(out[i]), dateValue) = 2
    /\ Includes(stream, <<TOK1, TOK2, PLAIN, TOK1, TOK2>>)

\* C5: the text the client sees (the written delta texts, concatenated)
\* contains no occurrence of the token.
C5_NoTokenReachesClient ==
  pc = "closed" => ~Includes(Flatten(DeltaTextsIn(out)), dateToken)

\* the request was accepted by intake and its last content is text
LastIsText ==
  /\ req.method = "POST"
  /\ hasKey
  /\ pc # "start"
  /\ LastContent(MessagesOf(req.body)).kind # "nonstring"

\* the canned stream for an answer: one delta frame, one sentinel, closed,
\* and no upstream call
CannedStream(answer) ==
  /\ pc = "responded"
  /\ status = 200
  /\ out = <<sseLine(StringifyDelta(answer)), Sentinel>>
  /\ closed
  /\ upstreamCalls = 0

\* C6 as stated: a POST request (credential present) whose last message
\* matches the cost pattern is answered by the canned cost stream, without
\* an upstream call.
C6_CostShortcut ==
  (LastIsText /\ faqCost(variant, LastText)) => CannedStream(CostAnswer(variant))

\* C6 amended: a POST request (credential present) whose last message
\* matches the cost pattern and not the time pattern is answered by exactly
\* one delta frame with the canned cost answer, then one sentinel, then the
\* stream is closed, and the upstream is never called.
C6_CostShortcutUnlessTime ==
  (LastIsText /\ faqCost(variant, LastText) /\ ~faqTime(variant, LastText)) =>
    CannedStream(CostAnswer(variant))

\* C6 witness: a request matching only the cost pattern has been answered.
C6_Witness ==
  /\ LastIsText
  /\ LastText = <<"cost">>
  /\ pc = "responded"
  /\ out # <<>>

\* C7: the shortcut answers with the one canned answer of the first matched
\* intent in the order time, cost, visibility; with no match nothing canned
\* is written and exactly one upstream call is made.
C7_PriorityOrder ==
  /\ LastIsText =>
       LET t == faqTime(variant, LastText)
           c == faqCost(variant, LastText)
           w == faqVisibility(variant, LastText)
       IN  /\ t => CannedStream(TimeAnswer(variant))
           /\ (~t /\ c) => CannedStream(CostAnswer(variant))
           /\ (~t /\ ~c /\ w) => CannedStream(VisibilityAnswer(variant))
           /\ (~t /\ ~c /\ ~w) => (out = <<>> /\ upstreamCalls = 1)
  /\ pc \in {"fetching", "relaying", "reading", "emitting", "closing", "finishing", "closed",
            "readfailed", "writefailed"} =>
       upstreamCalls = 1

\* C7 witness: a last message matching the time, the cost and the
\* visibility pattern has been answered.
C7_Witness ==
  /\ LastIsText
  /\ faqTime(variant, LastText) /\ faqCost(variant, LastText) /\ faqVisibility(variant, LastText)
  /\ pc = "responded"
  /\ out # <<>>

\* C8: the message list sent upstream is the system turn followed by the
\* caller's turns, in order and unmodified.
C8_SystemTurnFirst ==
  pc = "fetching" =>
    LET caller == IF req.body.kind = "ok" THEN req.body.messages ELSE <<>>
        sent == inflight.messages
    IN  /\ Len(sent) = Len(caller) + 1
        /\ sent[1].role = "system"
        /\ sent[1] = SystemTurn(variant)
        /\ \A i \in 1..Len(caller) : sent[i + 1] = caller[i]

\* C8 witness: a list of two different caller turns was sent upstream.
C8_Witness ==
  /\ pc = "fetching"
  /\ Len(req.body.messages) = 2
  /\ req.body.messages[1] # req.body.messages[2]
  /\ Len(inflight.messages) = 3

\* a `data:` line whose payload is neither the terminal marker nor JSON
IsBadJsonLine(line) ==
  /\ StartsWith(line, <<DATA>>)
  /\ Trim(Tail(line)) # <<DONE>>
  /\ ~JsonParse(Tail(line)).ok

IsGoodLine(line) == ~IsBadJsonLine(line)

\* the body without its `data:` lines of invalid JSON
WithoutBadJson(s) ==
  LET ls == UpstreamLines(s)
  IN  Join(SelectSeq(Front(ls), IsGoodLine)
             \o <<IF IsBadJsonLine(Last(ls)) THEN <<>> ELSE Last(ls)>>, <<NL>>)

\* C9: a `data:` line of invalid JSON is skipped: the relay has written
\* exactly what it writes for the body without such lines, and it has ended
\* with the sentinel.
C9_BadJsonSkipped ==
  pc = "closed" =>
    /\ out = OneChunkRelay(variant, WithoutBadJson(stream))
    /\ IsSentinel(Last(out))
    /\ closed

\* C9 witness: a line of invalid JSON stood between two delta lines, and
\* both deltas were written, in order.
C9_Witness ==
  /\ pc = "closed"
  /\ Includes(stream, DeltaLine(<<PLAIN>>) \o <<NL, DATA, "#", NL>> \o DeltaLine(<<TOK1, TOK2>>))
  /\ DeltaTextsIn(out) = <<<<PLAIN>>, dateValue>>

\* C10: every frame written is the sentinel or {delta: <non-empty text>}.
C10_FrameShapes ==
  \A i \in 1..Len(out) : IsSentinel(out[i]) \/ (IsDeltaFrame(out[i]) /\ DeltaTextOf(out[i]) # <<>>)

\* C11: a request whose method is not POST is answered 405, whatever its
\* body and whether or not the credential is set; no frame is written, no
\* stream is opened and the upstream is not called.
C11_NonPost405 ==
  (req.method = "GET" /\ pc # "start") =>
    /\ pc = "responded"
    /\ status = 405
    /\ out = <<>>
    /\ ~closed
    /\ upstreamCalls = 0

\* C11 witness: a GET carrying a body that would match a shortcut, with the
\* credential absent, has been answered.
C11_Witness ==
  /\ req.method = "GET"
  /\ ~hasKey
  /\ req.body.kind = "ok"
  /\ LastText = <<"cost">>
  /\ pc = "responded"

\* C12: a POST handled while the credential is absent is answered 500, even
\* when its last message would match a shortcut; no frame is written and the
\* upstream is not called.
C12_MissingKey500 ==
  (req.method = "POST" /\ ~hasKey /\ pc # "start") =>
    /\ pc = "responded"
    /\ status = 500
    /\ out = <<>>
    /\ ~closed
    /\ upstreamCalls = 0

\* C12 witness: a POST whose last message matches the cost pattern has been
\* answered while the credential was absent.
C12_Witness ==
  /\ req.method = "POST"
  /\ ~hasKey
  /\ req.body.kind = "ok"
  /\ LastText = <<"cost">>
  /\ pc = "responded"

\* C13: when the upstream call has failed (the handler has stopped after its
\* one fetch without starting the relay), a response with a status other
\* than 200 was given, no frame was written and the call was not repeated.
C13_UpstreamFailure ==
  (pc \in {"responded", "threw"} /\ upstreamCalls >= 1) =>
    /\ status \notin {0, 200}
    /\ out = <<>>
    /\ ~closed
    /\ upstreamCalls = 1

\* the leftover: what follows the last newline of the upstream body
LeftoverOf(s) == Last(UpstreamLines(s))

\* C16: when the upstream ends with a final line that has no newline and
\* that line is a well-formed `data:` event with a non-empty delta, its
\* substituted delta frame is written right before the terminal sentinel.
C16_LeftoverEventFlushed ==
  (pc = "closed" /\ CarriedDelta(LeftoverOf(stream)) # <<>>) =>
    /\ Len(out) >= 2
    /\ IsDeltaFrame(out[Len(out) - 1])
    /\ Unpatch(DeltaTextOf(out[Len(out) - 1])) = CarriedDelta(LeftoverOf(stream))[1]

\* the request was accepted by intake and its body gives no message list
NoMessageList ==
  /\ req.method = "POST"
  /\ hasKey
  /\ pc # "start"
  /\ req.body.kind \in {"badjson", "nomessages"}

\* C18 as stated: such a request is handled as one with an empty message
\* list and the default model: no shortcut, one upstream call carrying only
\* the system turn.
C18_DegradesToEmptyDefault ==
  NoMessageList =>
    /\ upstreamCalls = 1
    /\ out = <<>>
    /\ inflight = [model |-> "gpt-4o-mini", stream |-> TRUE, messages |-> <<SystemTurn(variant)>>]

\* C18 amended: such a request is not rejected; it is handled as one with an
\* empty message list, and with the default model unless the parsed body
\* names a model: no shortcut, one upstream call carrying only the system
\* turn.
C18_DegradesToEmpty ==
  NoMessageList =>
    /\ pc \in {"fetching", "responded", "threw"}
    /\ status \in {0, 502}
    /\ upstreamCalls = 1
    /\ out = <<>>
    /\ inflight.messages = <<SystemTurn(variant)>>
    /\ inflight.stream
    /\ inflight.model = IF req.body.kind = "nomessages" /\ req.body.model # ""
                          THEN req.body.model ELSE "gpt-4o-mini"

\* C18 witness: a body that is not JSON has led to the upstream call.
C18_Witness ==
  /\ NoMessageList
  /\ req.body.kind = "badjson"
  /\ pc = "fetching"

\* C19: intake and shortcut matching never fail on the shape of the last
\* message: the handler never stops with an exception before its fetch.
C19_IntakeNeverThrows ==
  ~(pc = "threw" /\ upstreamCalls = 0)

\* the frames that are the sentinel or a delta with text
IsContractFrame(f) == IsSentinel(f) \/ (IsDeltaFrame(f) /\ DeltaTextOf(f) # <<>>)

\* every parseable `data:` line is the terminal marker or carries a delta
WellShapedLine(line) ==
  (StartsWith(line, <<DATA>>) /\ Trim(Tail(line)) # <<DONE>> /\ JsonParse(Tail(line)).ok)
    => CarriedDelta(line) # <<>>

WellShaped(s) == \A i \in 1..Len(UpstreamLines(s)) : WellShapedLine(UpstreamLines(s)[i])

OtherVariant == IF variant = "chat.ts" THEN "part_000" ELSE "chat.ts"

\* C20: on a well-shaped body both variants write the same frames; on any
\* body they differ only by the frames chat.ts forwards unchanged for
\* parseable JSON without a delta, which part_000 drops.
C20_VariantsAgree ==
  pc = "closed" =>
    /\ WellShaped(stream) => out = OneChunkRelay(OtherVariant, stream)
    /\ IF variant = "chat.ts"
         THEN SelectSeq(out, IsContractFrame) = OneChunkRelay("part_000", stream)
         ELSE out = SelectSeq(OneChunkRelay("chat.ts", stream), IsContractFrame)

\* C20 witness: a well-shaped body with a doubled token and the terminal
\* marker has been relayed.
C20_Witness ==
  /\ pc = "closed"
  /\ WellShaped(stream)
  /\ Includes(stream, <<TOK1, TOK2, PLAIN, TOK1, TOK2, "}", NL, DATA, SP, DONE>>)
  /\ Len(out) = 3

\* C14: a relay whose upstream read has failed does not stop silently: the
\* outbound channel has been terminated.
C14_ReadFailureTerminates ==
  pc = "readfailed" => closed

\* C15: when a relay has stopped because the client disconnected, the
\* upstream connection has been released.
C15_DisconnectReleasesUpstream ==
  (clientGone /\ pc = "writefailed") => ~upstreamOpen

====
